---- MODULE Spec2Model ----
(***************************************************************************)
(* The asynchronous content pipeline of the PDF search service: the        *)
(* Document / Chunk rows of the Metadata Store (SQLite), the per-document  *)
(* search index (MeiliSearch), the Bull job queue, the job processor       *)
(* processDocumentJob and the Orchestrator ETLService.processDocument.     *)
(*                                                                         *)
(* Spec      : a worker hands every delivered attempt of a job to          *)
(*             processDocumentJob; a run is split at its awaits, so runs   *)
(*             of different jobs and HTTP requests interleave.             *)
(* SpecStall : the runs of Spec with workers that can die in the middle  *)
(*             of a run (stalled jobs).                                    *)
(* SpecQueue : how the Bull queue picks the processor of a job, by the     *)
(*             name the job was added under (QueueManager.addJob) and     *)
(*             the name the processor was registered under                *)
(*             (setupJobEventHandlers).                                    *)
(* SpecExtract : one run of the Orchestrator on each parsedData of a       *)
(*             bounded set of raw paragraph, image and table records.      *)
(* SpecSearch : uploads, runs and deletions together with the search API   *)
(*             (SearchService.searchDocument, cache clear) and the Redis   *)
(*             cache with entries that expire.                             *)
(* SpecScope : the runs of several Documents with different content and   *)
(*             searches on each of them.                                   *)
(* SpecOcr   : one call of OCRService.processMultipleImages on a batch of  *)
(*             images, each with its failure point.                        *)
(* SpecReprocess : upload, reprocess and their runs together with        *)
(*             searches of one query and the expiry of cache entries.      *)
(* SpecStore : the runs of SpecExtract with inserts of chunks that fail.   *)
(* SpecRetry : the attempts of one job, each of which can fail before or   *)
(*             after it stored and indexed its chunks.                     *)
(***************************************************************************)
EXTENDS Integers, Sequences, FiniteSets, TLC

\* ---- bounds of the model ----
MaxDocs == 1
MaxJobs == 3
NumWorkers == 2
MaxRecords == 2
MaxTime == 2
MaxScopeDocs == 2
MaxImages == 3

\* ---- program constants ----
ATTEMPTS == 3
MaxStalledCount == 1

DocIds == 1..MaxDocs

PENDING == "pending"
PROCESSING == "processing"
COMPLETED == "completed"
FAILED == "failed"
DOCUMENT_STATUS == {PENDING, PROCESSING, COMPLETED, FAILED}

PARAGRAPH == "paragraph"
IMAGE == "image"
TABLE == "table"

\* A Document row that is not in the table; a Document without an index.
NoDoc == [status |-> "absent"]
NoIndex == [live |-> FALSE, entries |-> {}]
NoError == "null"

DEFAULT_JOB_NAME == "__default__"
ProcessorNames == {"processDocument"}

VARIABLES docs, created, chunks, index, jobs, cache, response, ocr

vars == <<docs, created, chunks, index, jobs, cache, response, ocr>>

\* ---------------------------------------------------------------------
\* Job payloads (job.data.parsedData).  A raw record carries what the
\* extractor reads of it: ok (FALSE: touching the record throws, e.g. a
\* null entry), the length of its cleaned text, a word of its text and
\* its page (0: absent).  An image record carries whether it has bytes,
\* the outcome of the OCR call, and the length and confidence of the
\* cleaned OCR text.
\* ---------------------------------------------------------------------
MockUploadData ==
  [paragraphs |-> <<[ok |-> TRUE, len |-> 40, term |-> <<"a", "b">>, page |-> 1]>>,
   images     |-> <<[hasData |-> TRUE, ocr |-> "ok", len |-> 20, conf |-> 90,
                     page |-> 0]>>,
   tables     |-> <<[ok |-> TRUE, len |-> 40, term |-> <<"c", "d">>, page |-> 0]>>]

MockReprocessData ==
  [paragraphs |-> <<[ok |-> TRUE, len |-> 22, term |-> <<"a", "b">>, page |-> 1]>>,
   images     |-> <<>>,
   tables     |-> <<>>]

parsedData(data) == data.parsedData

PageOf(rec) == IF rec.page = 0 THEN 1 ELSE rec.page

\* Shortest cleaned text of a paragraph or table chunk.
MIN_TEXT_LENGTH == 10

\* processParagraphs that keeps every paragraph (sensitivity of C11).
RECURSIVE processParagraphsKeepShort(_)
processParagraphsKeepShort(ps) ==
  IF ps = <<>> THEN <<>>
  ELSE LET p == Head(ps)
           rest == processParagraphsKeepShort(Tail(ps))
       IN IF ~p.ok THEN rest
          ELSE <<[type |-> PARAGRAPH, page |-> PageOf(p), len |-> p.len,
                  term |-> p.term, conf |-> 0]>> \o rest

\* A paragraph that throws is logged and skipped; cleaned text shorter
\* than 10 is skipped.
RECURSIVE processParagraphs(_)
processParagraphs(ps) ==
  IF ps = <<>> THEN <<>>
  ELSE LET p == Head(ps)
           rest == processParagraphs(Tail(ps))
       IN IF ~p.ok THEN rest
          ELSE IF p.len < MIN_TEXT_LENGTH THEN rest
          ELSE <<[type |-> PARAGRAPH, page |-> PageOf(p), len |-> p.len,
                  term |-> p.term, conf |-> 0]>> \o rest

\* OCR text of an image must be longer than this to make a chunk.
MAX_IGNORED_OCR_LENGTH == 5

\* imageBuffer is declared (const) in the block that calls the OCR and is
\* read in the block that builds the chunk, where the name is not in
\* scope: building the chunk throws a ReferenceError.
imageBufferInScope == FALSE

\* The text and confidence the loop body holds after the OCR block, or
\* "throw" when ocrService.processImage rejects.
ocrOutcome(im) ==
  IF ~im.hasData THEN [kind |-> "text", len |-> 0, conf |-> 0]
  ELSE IF im.ocr = "error" THEN [kind |-> "throw", len |-> 0, conf |-> 0]
  ELSE [kind |-> "text", len |-> im.len, conf |-> im.conf]

\* Every path of the loop body that throws ends in the per-image catch,
\* which logs and goes on with the next image.
RECURSIVE processImages(_)
processImages(is) ==
  IF is = <<>> THEN <<>>
  ELSE LET im == Head(is)
           rest == processImages(Tail(is))
           r == ocrOutcome(im)
       IN IF r.kind = "throw" THEN rest
          ELSE IF r.len > MAX_IGNORED_OCR_LENGTH
          THEN IF imageBufferInScope
               THEN <<[type |-> IMAGE, page |-> PageOf(im), len |-> r.len,
                       term |-> <<"i", "m">>, conf |-> r.conf]>> \o rest
               ELSE rest
          ELSE rest

\* convertTableToText catches its own errors and returns ''; an error
\* later in the loop body (extractTableStructure) is caught per table.
RECURSIVE processTables(_)
processTables(ts) ==
  IF ts = <<>> THEN <<>>
  ELSE LET t == Head(ts)
           rest == processTables(Tail(ts))
       IN IF ~t.ok THEN rest
          ELSE IF t.len < MIN_TEXT_LENGTH THEN rest
          ELSE <<[type |-> TABLE, page |-> PageOf(t), len |-> t.len,
                  term |-> t.term, conf |-> 0]>> \o rest

extractAndProcessContent(data) ==
  processParagraphs(data.paragraphs) \o processImages(data.images)
    \o processTables(data.tables)

RECURSIVE MaxPage(_)
MaxPage(cs) ==
  IF cs = <<>> THEN 0
  ELSE LET m == MaxPage(Tail(cs))
       IN IF Head(cs).page > m THEN Head(cs).page ELSE m

calculateTotalPages(cs) == IF Len(cs) = 0 THEN 0 ELSE MaxPage(cs)

\* The chunks one run of a job works on.  generateChunkId makes fresh ids
\* per extraction pass: an id is (job, run of the job, position).
processedChunks(j) ==
  LET cs == extractAndProcessContent(parsedData(jobs[j].data))
  IN {[doc |-> jobs[j].doc, id |-> <<j, jobs[j].run, k>>,
       type |-> cs[k].type, page |-> cs[k].page, len |-> cs[k].len,
       term |-> cs[k].term, conf |-> cs[k].conf] : k \in 1..Len(cs)}

\* ---------------------------------------------------------------------
\* Metadata Store
\* ---------------------------------------------------------------------
NewDocument ==
  [status |-> PENDING, error |-> NoError, totalPages |-> 0, totalChunks |-> 0]

ChunksOf(C, d) == {c \in C : c.doc = d}

\* updateStatus that leaves the stored error when none is given
\* (sensitivity of C27).
updateStatusKeepError(D, d, status, error) ==
  IF D[d] = NoDoc THEN D
  ELSE [D EXCEPT ![d].status = status,
                 ![d].error = IF error = NoError THEN @ ELSE error]

\* UPDATE documents SET processing_status, processing_error WHERE id
updateStatus(D, d, status, error) ==
  IF D[d] = NoDoc THEN D
  ELSE [D EXCEPT ![d].status = status, ![d].error = error]

\* INSERT OR REPLACE INTO documents: the row in memory replaces the stored
\* row (or brings a deleted row back).
save(D, d, mem) == [D EXCEPT ![d] = mem]

\* REPLACE deletes the stored row first; with foreign_keys = ON the
\* ON DELETE CASCADE of chunks.document_id removes the Document's chunks.
saveCascade(C, D, d) == IF D[d] = NoDoc THEN C ELSE {c \in C : c.doc # d}

\* Document.addChunk for every chunk of the run (storeChunks swallows the
\* foreign-key error of an insert for a Document row that is gone).
storeChunksRows(C, D, d, cs) == IF D[d] = NoDoc THEN C ELSE C \cup cs

\* UPDATE documents SET total_chunks = (SELECT COUNT( * ) ...)
recount(D, C, d) ==
  IF D[d] = NoDoc THEN D
  ELSE [D EXCEPT ![d].totalChunks = Cardinality(ChunksOf(C, d))]

\* ---------------------------------------------------------------------
\* Job queue
\* ---------------------------------------------------------------------
\* queue.add(jobData, jobOptions): no job name is given, so the job gets
\* Bull's default name.  data: the parsedData of the job.  ofCompleted:
\* the job is the reprocessing of a
\* Document that was completed when the request was accepted.
NewJob(d, data, ofCompleted) ==
  [doc |-> d, data |-> [parsedData |-> data], ofCompleted |-> ofCompleted,
   name |-> DEFAULT_JOB_NAME, attempts |-> ATTEMPTS,
   attemptsMade |-> 0, stalledCount |-> 0, state |-> "waiting", pc |-> "idle",
   delivered |-> 0, run |-> 0, memTotalChunks |-> 0, result |-> "none"]

addJob(Q, d, data, ofCompleted) == Append(Q, NewJob(d, data, ofCompleted))

JobIds == 1..Len(jobs)

Active == {j \in JobIds : jobs[j].state = "active"}

\* A job that left the queue for good: only its final state and result
\* are kept (the queue keeps finished jobs for the log only).
Finished(job, state, result) ==
  [job EXCEPT !.state = state, !.result = result, !.pc = "idle",
              !.attemptsMade = 0, !.stalledCount = 0, !.memTotalChunks = 0,
              !.delivered = 0, !.run = 0]

\* The attempt threw: Bull counts it and retries (after the backoff delay)
\* while attempts are left, else the job is failed.
AttemptFailed(job) ==
  IF job.attemptsMade + 1 < job.attempts
  THEN [job EXCEPT !.attemptsMade = @ + 1, !.state = "waiting",
                   !.pc = "idle", !.memTotalChunks = 0]
  ELSE Finished(job, "failed", "attempts exhausted")

\* ---------------------------------------------------------------------
\* Search index of a Document: whether it exists, and its entries
\* ---------------------------------------------------------------------
\* The error the search engine answers a createIndex with.
createIndexError(I, d) == IF I[d].live THEN "index_already_exists" ELSE NoError

\* createIndex that lets every error out (sensitivity of C26).
createIndexRethrowsAll(code) == code # NoError

\* MeiliSearchClient.createIndex: its catch returns null for
\* index_already_exists and throws every other error again.
createIndexRethrows(code) == code # NoError /\ code # "index_already_exists"

\* The error the search engine answers a deleteIndex with.
deleteIndexError(I, d) == IF I[d].live THEN NoError ELSE "index_not_found"

\* IndexService.deleteDocumentIndex: its catch returns for
\* index_not_found and throws every other error again.
deleteIndexRethrows(code) == code # NoError /\ code # "index_not_found"

\* createIndex keeps an existing index.
createDocumentIndex(I, d) == [I EXCEPT ![d].live = TRUE]

\* addDocuments adds (or replaces by primary key id) the entries of the batch.
indexDocumentChunks(I, d, cs) ==
  [I EXCEPT ![d] = [live |-> TRUE, entries |-> I[d].entries \cup cs]]

deleteDocumentIndex(I, d) == [I EXCEPT ![d] = NoIndex]

\* ---------------------------------------------------------------------
\* Search Service: queries, options, cache key
\* ---------------------------------------------------------------------
\* A query is a sequence of characters.  The raw queries of the model:
\* plain, upper case with trailing blank, no match, too short, too short
\* after trimming, empty.
Queries ==
  {<<"a", "b">>, <<"A", "b", " ">>, <<"z", "z">>, <<"a">>,
   <<" ", "a", " ">>, <<>>}

RECURSIVE trimStart(_)
trimStart(s) ==
  IF s # <<>> /\ Head(s) = " " THEN trimStart(Tail(s)) ELSE s

RECURSIVE trimEnd(_)
trimEnd(s) ==
  IF s # <<>> /\ s[Len(s)] = " " THEN trimEnd(SubSeq(s, 1, Len(s) - 1)) ELSE s

trim(s) == trimEnd(trimStart(s))

toLowerCase(s) ==
  [i \in 1..Len(s) |->
     IF s[i] = "A" THEN "a" ELSE IF s[i] = "B" THEN "b" ELSE s[i]]

\* Characters outside [\w\s\-'"] become a blank.
replaceSpecial(s) ==
  [i \in 1..Len(s) |-> IF s[i] \in {"!", "?"} THEN " " ELSE s[i]]

RECURSIVE collapseWhitespace(_)
collapseWhitespace(s) ==
  IF Len(s) < 2 THEN s
  ELSE IF s[1] = " " /\ s[2] = " " THEN collapseWhitespace(Tail(s))
  ELSE <<Head(s)>> \o collapseWhitespace(Tail(s))

cleanSearchQuery(query) ==
  trim(collapseWhitespace(replaceSpecial(toLowerCase(trim(query)))))

MIN_QUERY_LENGTH == 2
DEFAULT_LIMIT == 20
MAX_RESULTS == 100
CACHE_TTL == 300

\* The length check without the trim (sensitivity of C15).
queryTooShortUntrimmed(query) == Len(query) < MIN_QUERY_LENGTH

\* !query || query.trim().length < MIN_QUERY_LENGTH
queryTooShort(query) == Len(trim(query)) < MIN_QUERY_LENGTH

\* The ready check that only refuses a failed Document (sensitivity of C14).
documentReadyUnlessFailed(doc) == doc.status # FAILED

\* document.processingStatus === 'completed'
documentReady(doc) == doc.status = COMPLETED

\* The options of a search request as the controller passes them on (0 or
\* "none": not given).
DefaultOptions ==
  [limit |-> DEFAULT_LIMIT, offset |-> 0, type |-> "none", page |-> 0,
   minConfidence |-> 0, sortBy |-> "none", sortOrder |-> "desc"]

SearchOptionValues ==
  {DefaultOptions,
   [DefaultOptions EXCEPT !.minConfidence = 80],
   [DefaultOptions EXCEPT !.type = TABLE],
   [DefaultOptions EXCEPT !.limit = 1],
   [DefaultOptions EXCEPT !.page = 2],
   [DefaultOptions EXCEPT !.sortBy = "ocrConfidence"]}

\* The sort fields the validator of the search request lets through.
sortByValues == {"pageNumber", "ocrConfidence", "createdAt"}

\* prefix + documentId + base64(query) + base64(JSON of six options): the
\* key is made of these parts and of nothing else.
generateCacheKey(d, query, options) ==
  [doc |-> d, query |-> query,
   options |-> [limit |-> options.limit, offset |-> options.offset,
                type |-> options.type, page |-> options.page,
                sortBy |-> options.sortBy, sortOrder |-> options.sortOrder]]

Min(a, b) == IF a < b THEN a ELSE b

\* The searchOptions the Search Service hands to IndexService.search.
buildSearchOptions(options) ==
  [limit |-> Min(IF options.limit = 0 THEN DEFAULT_LIMIT ELSE options.limit,
                 MAX_RESULTS),
   offset |-> options.offset,
   contentType |-> options.type,
   pageNumber |-> options.page,
   minConfidence |-> options.minConfidence,
   sortBy |-> options.sortBy,
   sortOrder |-> options.sortOrder]

\* ---------------------------------------------------------------------
\* Index query (IndexService.search on the Document's index)
\* ---------------------------------------------------------------------
filterableAttributes == {"documentId", "type", "pageNumber"}
sortableAttributes == {"pageNumber", "createdAt"}

\* The name of the index of a Document: the prefix and the Document id.
indexPrefix == "pdf_search"

\* An index name that leaves the Document id out (sensitivity of C21).
getIndexNameShared(d) == <<indexPrefix, 0>>

getIndexName(d) == <<indexPrefix, d>>

\* The index the search engine keeps under a name.
IndexNamed(I, name) == I[CHOOSE e \in DOMAIN I : getIndexName(e) = name]

\* The attributes the filter expression of the query names.
FilterAttributes(so) ==
  (IF so.contentType \in {PARAGRAPH, IMAGE, TABLE} THEN {"type"} ELSE {})
    \cup (IF so.pageNumber # 0 THEN {"pageNumber"} ELSE {})
    \cup (IF so.minConfidence # 0 THEN {"ocrConfidence"} ELSE {})

\* The index answers when it exists and the filter and sort attributes
\* are configured on it; else the search call rejects.
indexAccepts(I, d, so) ==
  /\ IndexNamed(I, getIndexName(d)).live
  /\ FilterAttributes(so) \subseteq filterableAttributes
  /\ so.sortBy = "none" \/ so.sortBy \in sortableAttributes

\* The entries that match the query (the empty query matches all;
\* matchingStrategy 'all': every word of the query is in the content) and
\* the filters.
Matching(I, d, query, so) ==
  {c \in IndexNamed(I, getIndexName(d)).entries :
     /\ query = <<>> \/ query = c.term
     /\ so.contentType \in {PARAGRAPH, IMAGE, TABLE} => c.type = so.contentType
     /\ so.pageNumber # 0 => c.page = so.pageNumber
     /\ so.minConfidence # 0 => c.conf >= so.minConfidence}

\* The result windows (limit, offset) the index can return for a match set.
Windows(M, so) ==
  LET rest == IF Cardinality(M) > so.offset THEN Cardinality(M) - so.offset ELSE 0
  IN {H \in SUBSET M : Cardinality(H) = Min(so.limit, rest)}

\* ---------------------------------------------------------------------
\* Cache (Redis) and responses
\* ---------------------------------------------------------------------
NoPayload ==
  [hits |-> {}, query |-> <<>>, originalQuery |-> <<>>, limit |-> 0,
   offset |-> 0, total |-> 0, cached |-> FALSE, timestamp |-> 0]

\* finalResults: hits, pagination and searchMetadata of a computed response.
finalResults(H, M, query, cleanQuery, so, t) ==
  [hits |-> H, query |-> cleanQuery, originalQuery |-> query,
   limit |-> so.limit, offset |-> so.offset, total |-> Cardinality(M),
   cached |-> FALSE, timestamp |-> t]

\* The last response of the search API, with what the request touched.
NoResponse ==
  [op |-> "none", doc |-> 0, query |-> <<>>, options |-> DefaultOptions,
   code |-> "none", payload |-> NoPayload, storeRead |-> FALSE,
   cacheRead |-> FALSE, indexQueried |-> FALSE, fromCache |-> FALSE,
   getOk |-> TRUE, setOk |-> TRUE, expired |-> FALSE]

\* The status the controller answers for the message of a thrown error.
errorStatus(message) ==
  IF message = "Document not found" THEN "NOT_FOUND"
  ELSE IF message = "Document is not ready for search" THEN "UNPROCESSABLE_ENTITY"
  ELSE IF message = "Query must be at least" THEN "BAD_REQUEST"
  ELSE "INTERNAL_SERVER_ERROR"

\* getCachedResults that never finds an entry (sensitivity of C18).
getCachedResultsNever(C, key, getOk) == {}

\* redisClient.get: null when Redis is not connected or the call fails;
\* getCachedResults parses the value it finds.  The set of entries found.
getCachedResults(C, key, getOk) ==
  IF getOk THEN {e \in C : e.key = key} ELSE {}

\* A set without an expiry (sensitivity of C31).
setExpiryNone(ttl) == 0

\* RedisClient.set: options = ttl ? { EX: ttl } : {} (0: the key does not
\* expire).
setExpiry(ttl) == ttl

\* cacheResults that writes although Redis is down (sensitivity of C20).
cacheResultsAlways(C, key, results, so, setOk, n) ==
  {e \in C : e.key # key}
    \cup {[key |-> key, value |-> results, ttl |-> setExpiry(CACHE_TTL),
             madeFor |-> so, jobsSeen |-> n]}

\* redisClient.set(key, JSON.stringify(results), cacheTTL): nothing when
\* Redis is not connected or the call fails.  madeFor: the index query the
\* value was computed for; jobsSeen: how many jobs the queue had been
\* given when the value was written.
cacheResults(C, key, results, so, setOk, n) ==
  IF setOk
  THEN {e \in C : e.key # key}
         \cup {[key |-> key, value |-> results, ttl |-> setExpiry(CACHE_TTL),
                  madeFor |-> so, jobsSeen |-> n]}
  ELSE C

\* The cache write for any result set (sensitivity of C19).
worthCachingAlways(H) == TRUE

\* results.hits.length > 0
worthCaching(H) == H # {}

\* invalidateCache builds the key pattern, logs it and returns true.
invalidateCache(C, d) == C

\* ---------------------------------------------------------------------
\* OCR service (OCRService): one call of processMultipleImages
\* ---------------------------------------------------------------------
\* Where the handling of an image can fail: Tesseract.createWorker, the
\* language load (loadLanguage, initialize, setParameters), recognize, or
\* worker.terminate.
FailurePoints == {"none", "create", "load", "recognize", "terminate"}

maxWorkers == 2

\* No call of the OCR service is going on.
NoOcr ==
  [pc |-> "idle", images |-> <<>>, i |-> 0, st |-> <<>>, threw |-> <<>>,
   alive |-> {}, registered |-> {}, batchResults |-> {}, results |-> <<>>,
   successful |-> 0, failed |-> 0, totalProcessed |-> 0]

\* processMultipleImages(imageBuffers) was called: nothing has run yet.
\* st[k]: where processImage of image k is; worker ids are fresh per
\* image, so the worker of image k is named k.
OcrCall(imageBuffers) ==
  [NoOcr EXCEPT !.pc = "running", !.images = imageBuffers,
                !.st = [k \in 1..Len(imageBuffers) |-> "queued"],
                !.threw = [k \in 1..Len(imageBuffers) |-> FALSE]]

maxConcurrent(o) == Min(Len(o.images), maxWorkers)

\* The images of the batch the loop is at (slice(i, i + maxConcurrent)).
Batch(o) ==
  {k \in 1..Len(o.images) : o.i < k /\ k <= o.i + maxConcurrent(o)}

\* The callback of an image that lets the error of processImage out.
callbackOutcomeRethrow(k, threw) ==
  [index |-> k - 1, success |-> ~threw, rejected |-> threw]

\* The value the callback of image k resolves to: its try/catch turns a
\* throw of processImage into {index, success: false, error}.
callbackOutcome(k, threw) ==
  [index |-> k - 1, success |-> ~threw, rejected |-> FALSE]

\* results.sort((a, b) => a.index - b.index) of a set of outcomes.
RECURSIVE sortByIndex(_)
sortByIndex(rs) ==
  IF rs = {} THEN <<>>
  ELSE LET r == CHOOSE x \in rs : \A y \in rs : x.index <= y.index
       IN <<r>> \o sortByIndex(rs \ {r})

Count(seq, success) ==
  Cardinality({k \in 1..Len(seq) : seq[k].success = success})

\* ---------------------------------------------------------------------
\* Initial state: empty store, no index, empty queue
\* ---------------------------------------------------------------------
Init ==
  /\ docs = [d \in DocIds |-> NoDoc]
  /\ created = {}
  /\ chunks = {}
  /\ index = [d \in DocIds |-> NoIndex]
  /\ jobs = <<>>
  /\ cache = {}
  /\ response = NoResponse
  /\ ocr = NoOcr

\* ---------------------------------------------------------------------
\* The parsedData an external parser can hand to a job: up to MaxRecords
\* records of each kind
\* ---------------------------------------------------------------------
ParagraphRecords ==
  {[ok |-> TRUE, len |-> 9, term |-> <<"a", "b">>, page |-> 1],
   [ok |-> TRUE, len |-> 10, term |-> <<"a", "b">>, page |-> 2],
   [ok |-> FALSE, len |-> 0, term |-> <<>>, page |-> 0]}

ImageRecords ==
  {[hasData |-> FALSE, ocr |-> "ok", len |-> 0, conf |-> 0, page |-> 1],
   [hasData |-> TRUE, ocr |-> "error", len |-> 0, conf |-> 0, page |-> 1],
   [hasData |-> TRUE, ocr |-> "ok", len |-> 5, conf |-> 40, page |-> 1],
   [hasData |-> TRUE, ocr |-> "ok", len |-> 6, conf |-> 87, page |-> 3]}

TableRecords ==
  {[ok |-> TRUE, len |-> 9, term |-> <<"c", "d">>, page |-> 0],
   [ok |-> TRUE, len |-> 10, term |-> <<"c", "d">>, page |-> 0],
   [ok |-> FALSE, len |-> 30, term |-> <<"c", "d">>, page |-> 1]}

SeqsUpTo(S, n) == UNION {[1..k -> S] : k \in 0..n}

ParsedInputs ==
  [paragraphs : SeqsUpTo(ParagraphRecords, MaxRecords),
   images : SeqsUpTo(ImageRecords, MaxRecords),
   tables : SeqsUpTo(TableRecords, MaxRecords)]

\* A Document that was uploaded with the parsedData of an external
\* parser: its row is pending and its job waits in the queue.
InitExtract ==
  \E d \in DocIds, data \in ParsedInputs :
    /\ docs = [e \in DocIds |-> IF e = d THEN NewDocument ELSE NoDoc]
    /\ created = {d}
    /\ chunks = {}
    /\ index = [e \in DocIds |-> NoIndex]
    /\ jobs = addJob(<<>>, d, data, FALSE)
    /\ cache = {}
    /\ response = NoResponse
    /\ ocr = NoOcr

\* ---------------------------------------------------------------------
\* Several Documents with different content: each was uploaded with the
\* parsedData of an external parser and its job waits in the queue.
\* ---------------------------------------------------------------------
ScopeDocIds == 1..MaxScopeDocs

ScopeInputs ==
  {[paragraphs |-> <<[ok |-> TRUE, len |-> 40, term |-> <<"a", "b">>, page |-> 1]>>,
    images |-> <<>>, tables |-> <<>>],
   [paragraphs |-> <<[ok |-> TRUE, len |-> 30, term |-> <<"a", "b">>, page |-> 2]>>,
    images |-> <<>>,
    tables |-> <<[ok |-> TRUE, len |-> 40, term |-> <<"a", "b">>, page |-> 2]>>]}

InitScope ==
  \E data \in [ScopeDocIds -> ScopeInputs] :
    /\ docs = [d \in ScopeDocIds |-> NewDocument]
    /\ created = ScopeDocIds
    /\ chunks = {}
    /\ index = [d \in ScopeDocIds |-> NoIndex]
    /\ jobs = [d \in ScopeDocIds |-> NewJob(d, data[d], FALSE)]
    /\ cache = {}
    /\ response = NoResponse
    /\ ocr = NoOcr

\* ---------------------------------------------------------------------
\* HTTP requests (DocumentController)
\* ---------------------------------------------------------------------
\* POST /documents: a new row (status pending) and one job; when the
\* enqueue is rejected the catch records failed on the new row.
uploadDocument(d, queued) ==
  /\ d \notin created
  /\ created' = created \cup {d}
  /\ IF queued
     THEN /\ Len(jobs) < MaxJobs
          /\ docs' = save(docs, d, NewDocument)
          /\ jobs' = addJob(jobs, d, MockUploadData, FALSE)
     ELSE /\ docs' = updateStatus(save(docs, d, NewDocument), d, FAILED, "enqueue")
          /\ jobs' = jobs
  /\ UNCHANGED <<chunks, index, cache, response, ocr>>

\* A reprocess request that is never refused (sensitivity of C29).
reprocessRejectedNever(doc) == FALSE

\* The only status that makes the reprocess request refuse.
reprocessRejected(doc) == doc.status = PROCESSING

\* POST /documents/:id/reprocess: status back to pending, error cleared,
\* one more job; a rejected enqueue answers 500 and leaves the row pending.
reprocessDocument(d, queued) ==
  /\ docs[d] # NoDoc
  /\ ~reprocessRejected(docs[d])
  /\ docs' = updateStatus(docs, d, PENDING, NoError)
  /\ IF queued
     THEN /\ Len(jobs) < MaxJobs
          /\ jobs' = addJob(jobs, d, MockReprocessData, docs[d].status = COMPLETED)
     ELSE jobs' = jobs
  /\ UNCHANGED <<created, chunks, index, cache, response, ocr>>

\* DELETE /documents/:id: index deletion (a failure is logged and the
\* request goes on), then the Chunk rows and the Document row.
deleteDocument(d, indexDeleted) ==
  /\ docs[d] # NoDoc
  /\ index' = IF indexDeleted /\ ~deleteIndexRethrows(deleteIndexError(index, d))
              THEN deleteDocumentIndex(index, d)
              ELSE index
  /\ chunks' = {c \in chunks : c.doc # d}
  /\ docs' = [docs EXCEPT ![d] = NoDoc]
  /\ UNCHANGED <<created, jobs, cache, response, ocr>>

\* ---------------------------------------------------------------------
\* Job processor (processDocumentJob) and Orchestrator (processDocument)
\* ---------------------------------------------------------------------
\* A free worker takes a waiting job and calls processDocumentJob.
Deliver(j) ==
  /\ jobs[j].state = "waiting"
  /\ Cardinality(Active) < NumWorkers
  /\ jobs' = [jobs EXCEPT ![j].state = "active", ![j].pc = "start",
                          ![j].delivered = @ + 1, ![j].run = @ + 1]
  /\ UNCHANGED <<docs, created, chunks, index, cache, response, ocr>>

\* The error handling of one attempt that threw msg with the in-memory
\* document loaded or not: processDocument's catch records failed, then
\* processDocumentJob's catch records failed on the final attempt.
catchError(D, job, msg, loaded) ==
  LET D1 == IF loaded THEN updateStatus(D, job.doc, FAILED, msg) ELSE D
  IN IF job.attemptsMade + 1 >= job.attempts
     THEN updateStatus(D1, job.doc, FAILED, msg)
     ELSE D1

\* alreadyProcessed without the status check (sensitivity of C8).
alreadyProcessedNever(doc) == FALSE

\* processDocumentJob skips a Document that is already completed.
alreadyProcessed(doc) == doc.status = COMPLETED

\* processDocumentJob up to the call of the Orchestrator, then
\* processDocument up to the status update: the Document is loaded and,
\* unless it is completed already, set to processing.
JobStart(j) ==
  /\ jobs[j].state = "active" /\ jobs[j].pc = "start"
  /\ LET d == jobs[j].doc IN
     IF docs[d] = NoDoc
     THEN /\ docs' = catchError(docs, jobs[j], "not found", FALSE)
          /\ jobs' = [jobs EXCEPT ![j] = AttemptFailed(@)]
     ELSE IF alreadyProcessed(docs[d])
     THEN /\ docs' = docs
          /\ jobs' = [jobs EXCEPT ![j] = Finished(@, "completed", "already_processed")]
     ELSE /\ docs' = updateStatus(docs, d, PROCESSING, NoError)
          /\ jobs' = [jobs EXCEPT ![j].pc = "extract",
                                  ![j].memTotalChunks = docs[d].totalChunks]
  /\ UNCHANGED <<created, chunks, index, cache, response, ocr>>

\* The Document object the run holds in memory when it calls save().
memDocument(j) ==
  [status |-> PROCESSING, error |-> NoError,
   totalPages |-> calculateTotalPages(
                    extractAndProcessContent(parsedData(jobs[j].data))),
   totalChunks |-> jobs[j].memTotalChunks]

\* Extraction, totalPages, document.save().
EtlExtractAndSave(j) ==
  /\ jobs[j].state = "active" /\ jobs[j].pc = "extract"
  /\ LET d == jobs[j].doc IN
     /\ chunks' = saveCascade(chunks, docs, d)
     /\ docs' = save(docs, d, memDocument(j))
  /\ jobs' = [jobs EXCEPT ![j].pc = "store"]
  /\ UNCHANGED <<created, index, cache, response, ocr>>

\* storeChunks: addChunk (insert, recount) for every chunk of the run;
\* the error of an addChunk is logged and the loop goes on.  failing: the
\* chunks whose insert fails.
EtlStoreChunks(j, failing) ==
  /\ jobs[j].state = "active" /\ jobs[j].pc = "store"
  /\ failing \subseteq processedChunks(j)
  /\ LET d == jobs[j].doc
         C == storeChunksRows(chunks, docs, d, processedChunks(j) \ failing)
     IN /\ chunks' = C
        /\ docs' = IF processedChunks(j) \ failing = {} THEN docs
                   ELSE recount(docs, C, d)
  /\ jobs' = [jobs EXCEPT ![j].pc = "index"]
  /\ UNCHANGED <<created, index, cache, response, ocr>>

\* createDocumentIndex, then indexDocumentChunks with the run's chunks as
\* one batch.
EtlIndexChunks(j) ==
  /\ jobs[j].state = "active" /\ jobs[j].pc = "index"
  /\ IF createIndexRethrows(createIndexError(index, jobs[j].doc))
     THEN /\ docs' = catchError(docs, jobs[j],
                                createIndexError(index, jobs[j].doc), TRUE)
          /\ jobs' = [jobs EXCEPT ![j] = AttemptFailed(@)]
          /\ index' = index
     ELSE /\ index' = indexDocumentChunks(createDocumentIndex(index, jobs[j].doc),
                                          jobs[j].doc, processedChunks(j))
          /\ jobs' = [jobs EXCEPT ![j].pc = "complete"]
          /\ docs' = docs
  /\ UNCHANGED <<created, chunks, cache, response, ocr>>

EtlComplete(j) ==
  /\ jobs[j].state = "active" /\ jobs[j].pc = "complete"
  /\ docs' = updateStatus(docs, jobs[j].doc, COMPLETED, NoError)
  /\ jobs' = [jobs EXCEPT ![j] = Finished(@, "completed", "completed")]
  /\ UNCHANGED <<created, chunks, index, cache, response, ocr>>

\* The steps of a run that can throw (extraction or save; index creation
\* or indexing), and the message of the error.
ThrowPoints == {"extract", "index"}

ErrorMessage(pc) == IF pc = "extract" THEN "extraction failed" ELSE "index failed"

\* The totalChunks of the result the run returns.
reportedTotalChunks(j) == Cardinality(processedChunks(j))

\* A step of the run throws: both catch blocks run, the queue counts the
\* failed attempt.
EtlThrow(j) ==
  /\ jobs[j].state = "active" /\ jobs[j].pc \in ThrowPoints
  /\ docs' = catchError(docs, jobs[j], ErrorMessage(jobs[j].pc), TRUE)
  /\ jobs' = [jobs EXCEPT ![j] = AttemptFailed(@)]
  /\ UNCHANGED <<created, chunks, index, cache, response, ocr>>

\* The last step of the run, updateStatus(COMPLETED), throws (the store
\* rejects the update): the attempt fails after it has stored and indexed
\* its chunks.
EtlCompleteThrows(j) ==
  /\ jobs[j].state = "active" /\ jobs[j].pc = "complete"
  /\ docs' = catchError(docs, jobs[j], "status update failed", TRUE)
  /\ jobs' = [jobs EXCEPT ![j] = AttemptFailed(@)]
  /\ UNCHANGED <<created, chunks, index, cache, response, ocr>>

StallPoints == {"index"}

\* The worker dies in the middle of a run (after the Document was set to
\* processing).  The queue finds the job stalled: it puts it back to
\* waiting, or fails it once it stalled more than MaxStalledCount times.
\* The 'stalled' and 'failed' handlers only log.
Stalled(j) ==
  /\ jobs[j].state = "active" /\ jobs[j].pc \in StallPoints
  /\ jobs' = [jobs EXCEPT ![j] =
                IF @.stalledCount < MaxStalledCount
                THEN [@ EXCEPT !.stalledCount = @ + 1, !.state = "waiting",
                               !.pc = "idle", !.memTotalChunks = 0]
                ELSE Finished(@, "failed", "stalled")]
  /\ UNCHANGED <<docs, created, chunks, index, cache, response, ocr>>

\* ---------------------------------------------------------------------
\* Handler lookup of the queue
\* ---------------------------------------------------------------------
\* Bull runs a job with the processor registered under the job's name (or
\* under '*'); a job without one fails the attempt with "Missing process
\* handler for job type", and processDocumentJob is not called.
HasProcessor(name) == name \in ProcessorNames \/ "*" \in ProcessorNames

Dispatch(j) ==
  /\ jobs[j].state = "waiting"
  /\ Cardinality(Active) < NumWorkers
  /\ jobs' = [jobs EXCEPT ![j] =
                IF HasProcessor(@.name)
                THEN [@ EXCEPT !.state = "active", !.pc = "start",
                               !.delivered = @ + 1, !.run = @ + 1]
                ELSE AttemptFailed([@ EXCEPT !.delivered = @ + 1])]
  /\ UNCHANGED <<docs, created, chunks, index, cache, response, ocr>>

\* ---------------------------------------------------------------------
\* Search API (SearchController, SearchService)
\* ---------------------------------------------------------------------
\* GET /search/:id?q=...: validation, Document lookup, cache lookup, and
\* on a miss the index query and the cache write.  getOk, setOk: whether
\* the Redis get and set of this request work; t: the clock reading.
searchDocument(d, query, options, getOk, setOk, t) ==
  LET Failed(message, sr, cr, iq, g) ==
        [op |-> "search", doc |-> d, query |-> query, options |-> options,
         code |-> errorStatus(message), payload |-> NoPayload,
         storeRead |-> sr, cacheRead |-> cr, indexQueried |-> iq,
         fromCache |-> FALSE, getOk |-> g, setOk |-> TRUE, expired |-> FALSE]
      Answered(p, iq, fc, g, s) ==
        [op |-> "search", doc |-> d, query |-> query, options |-> options,
         code |-> "OK", payload |-> p, storeRead |-> TRUE, cacheRead |-> TRUE,
         indexQueried |-> iq, fromCache |-> fc, getOk |-> g, setOk |-> s,
         expired |-> FALSE]
      cleanQuery == cleanSearchQuery(query)
      cacheKey == generateCacheKey(d, cleanQuery, options)
      so == buildSearchOptions(options)
  IN /\ IF queryTooShort(query)
        THEN /\ response' = Failed("Query must be at least", FALSE, FALSE, FALSE, TRUE)
             /\ cache' = cache
        ELSE IF docs[d] = NoDoc
        THEN /\ response' = Failed("Document not found", TRUE, FALSE, FALSE, TRUE)
             /\ cache' = cache
        ELSE IF ~documentReady(docs[d])
        THEN /\ response' = Failed("Document is not ready for search", TRUE, FALSE, FALSE, TRUE)
             /\ cache' = cache
        ELSE IF getCachedResults(cache, cacheKey, getOk) # {}
        THEN /\ response' =
                  Answered((CHOOSE e \in getCachedResults(cache, cacheKey, getOk) : TRUE).value,
                           FALSE, TRUE, TRUE, TRUE)
             /\ cache' = cache
        ELSE IF ~indexAccepts(index, d, so)
        THEN /\ response' = Failed("index error", TRUE, TRUE, TRUE, getOk)
             /\ cache' = cache
        ELSE \E H \in Windows(Matching(index, d, cleanQuery, so), so) :
               LET results == finalResults(H, Matching(index, d, cleanQuery, so),
                                           query, cleanQuery, so, t)
               IN /\ response' = Answered(results, TRUE, FALSE, getOk,
                                          IF worthCaching(H) THEN setOk ELSE TRUE)
                  /\ cache' = IF worthCaching(H)
                              THEN cacheResults(cache, cacheKey, results, so, setOk, Len(jobs))
                              ELSE cache
     /\ UNCHANGED <<docs, created, chunks, index, jobs, ocr>>

\* DELETE /search/:id/cache: 404 for an unknown Document, else
\* invalidateCache and the answer 'Search cache cleared successfully'.
clearSearchCache(d) ==
  /\ response' =
       [NoResponse EXCEPT !.op = "clear", !.doc = d, !.storeRead = TRUE,
                          !.code = IF docs[d] = NoDoc THEN "NOT_FOUND" ELSE "OK"]
  /\ cache' = IF docs[d] = NoDoc THEN cache ELSE invalidateCache(cache, d)
  /\ UNCHANGED <<docs, created, chunks, index, jobs, ocr>>

\* The TTL of a cache entry elapses: Redis drops the entry.  expired marks
\* the last response when the entry of its key is gone.
TtlExpire(e) ==
  /\ e \in cache
  /\ e.ttl > 0
  /\ cache' = cache \ {e}
  /\ response' =
       IF /\ response.op = "search"
          /\ generateCacheKey(response.doc, cleanSearchQuery(response.query),
                              response.options) = e.key
       THEN [response EXCEPT !.expired = TRUE]
       ELSE response
  /\ UNCHANGED <<docs, created, chunks, index, jobs, ocr>>

\* ---------------------------------------------------------------------
\* OCR service: processMultipleImages, processImage, createWorker,
\* terminateWorker
\* ---------------------------------------------------------------------
\* The loop starts a batch: every callback of the batch runs up to its
\* first await (processImage, createWorker).
OcrStartBatch ==
  /\ ocr.pc = "running"
  /\ ocr.i < Len(ocr.images)
  /\ \A k \in Batch(ocr) : ocr.st[k] = "queued"
  /\ ocr' = [ocr EXCEPT !.st = [k \in DOMAIN ocr.st |->
                                  IF k \in Batch(ocr) THEN "create" ELSE ocr.st[k]]]
  /\ UNCHANGED <<docs, created, chunks, index, jobs, cache, response>>

\* createWorker: Tesseract.createWorker (the id is new, the map has no
\* worker for it).
OcrCreateWorker(k) ==
  /\ ocr.pc = "running" /\ k \in DOMAIN ocr.st /\ ocr.st[k] = "create"
  /\ ocr' = IF ocr.images[k] = "create"
            THEN [ocr EXCEPT !.st[k] = "finally", !.threw[k] = TRUE]
            ELSE [ocr EXCEPT !.st[k] = "load", !.alive = @ \cup {k}]
  /\ UNCHANGED <<docs, created, chunks, index, jobs, cache, response>>

\* createWorker: loadLanguage, initialize, setParameters, workers.set.
OcrLoadLanguage(k) ==
  /\ ocr.pc = "running" /\ k \in DOMAIN ocr.st /\ ocr.st[k] = "load"
  /\ ocr' = IF ocr.images[k] = "load"
            THEN [ocr EXCEPT !.st[k] = "finally", !.threw[k] = TRUE]
            ELSE [ocr EXCEPT !.st[k] = "recognize", !.registered = @ \cup {k}]
  /\ UNCHANGED <<docs, created, chunks, index, jobs, cache, response>>

\* processImage: worker.recognize and the result.
OcrRecognize(k) ==
  /\ ocr.pc = "running" /\ k \in DOMAIN ocr.st /\ ocr.st[k] = "recognize"
  /\ ocr' = [ocr EXCEPT !.st[k] = "finally",
                        !.threw[k] = (ocr.images[k] = "recognize")]
  /\ UNCHANGED <<docs, created, chunks, index, jobs, cache, response>>

\* processImage's finally: terminateWorker(workerId) terminates and
\* unregisters the worker the map has for the id, and swallows the error
\* of a failing terminate (the worker may or may not be gone then); then
\* the callback of the image resolves.
OcrTerminateWorker(k) ==
  /\ ocr.pc = "running" /\ k \in DOMAIN ocr.st /\ ocr.st[k] = "finally"
  /\ \E gone \in BOOLEAN :
       ocr' = [ocr EXCEPT
                 !.st[k] = "done",
                 !.alive = IF k \notin ocr.registered THEN @
                           ELSE IF ocr.images[k] = "terminate"
                           THEN (IF gone THEN @ \ {k} ELSE @)
                           ELSE @ \ {k},
                 !.registered = IF ocr.images[k] = "terminate" THEN @ ELSE @ \ {k},
                 !.batchResults = @ \cup {callbackOutcome(k, ocr.threw[k])}]
  /\ UNCHANGED <<docs, created, chunks, index, jobs, cache, response>>

\* Promise.all(batchPromises) settles: it rejects when a callback
\* rejected, else results.push(...batchResults) and the loop goes on.
OcrBatchDone ==
  /\ ocr.pc = "running"
  /\ Batch(ocr) # {}
  /\ \A k \in Batch(ocr) : ocr.st[k] = "done"
  /\ ocr' = IF \E r \in ocr.batchResults : r.rejected
            THEN [ocr EXCEPT !.pc = "thrown"]
            ELSE [ocr EXCEPT !.results = @ \o sortByIndex(ocr.batchResults),
                             !.batchResults = {},
                             !.i = @ + maxConcurrent(ocr)]
  /\ UNCHANGED <<docs, created, chunks, index, jobs, cache, response>>

\* After the loop: the counts and the sorted results are returned.
OcrReturn ==
  /\ ocr.pc = "running"
  /\ ocr.i >= Len(ocr.images)
  /\ ocr' = [ocr EXCEPT !.pc = "returned",
                        !.results = sortByIndex({@[k] : k \in 1..Len(@)}),
                        !.successful = Count(ocr.results, TRUE),
                        !.failed = Count(ocr.results, FALSE),
                        !.totalProcessed = Len(ocr.results)]
  /\ UNCHANGED <<docs, created, chunks, index, jobs, cache, response>>

\* ---------------------------------------------------------------------
\* Specifications
\* ---------------------------------------------------------------------
Next ==
  \/ \E d \in DocIds, queued \in BOOLEAN : uploadDocument(d, queued)
  \/ \E d \in DocIds, queued \in BOOLEAN : reprocessDocument(d, queued)
  \/ \E d \in DocIds, indexDeleted \in BOOLEAN : deleteDocument(d, indexDeleted)
  \/ \E j \in JobIds : Deliver(j)
  \/ \E j \in JobIds : JobStart(j)
  \/ \E j \in JobIds : EtlExtractAndSave(j)
  \/ \E j \in JobIds : EtlStoreChunks(j, {})
  \/ \E j \in JobIds : EtlIndexChunks(j)
  \/ \E j \in JobIds : EtlComplete(j)
  \/ \E j \in JobIds : EtlThrow(j)

\* Requests, runs and failing attempts, every delivery handed to
\* processDocumentJob.
Spec == Init /\ [][Next]_vars

\* Runs whose worker can die in the middle (requests that enqueue, no
\* deletion).
NextStall ==
  \/ \E d \in DocIds : uploadDocument(d, TRUE)
  \/ \E d \in DocIds : reprocessDocument(d, TRUE)
  \/ \E j \in JobIds : Deliver(j)
  \/ \E j \in JobIds : JobStart(j)
  \/ \E j \in JobIds : EtlExtractAndSave(j)
  \/ \E j \in JobIds : EtlStoreChunks(j, {})
  \/ \E j \in JobIds : EtlIndexChunks(j)
  \/ \E j \in JobIds : EtlComplete(j)
  \/ \E j \in JobIds : EtlThrow(j)
  \/ \E j \in JobIds : Stalled(j)

SpecStall == Init /\ [][NextStall]_vars

\* Requests and the queue's choice of the processor by job name.
NextQueue ==
  \/ \E d \in DocIds, queued \in BOOLEAN : uploadDocument(d, queued)
  \/ \E d \in DocIds, queued \in BOOLEAN : reprocessDocument(d, queued)
  \/ \E d \in DocIds, indexDeleted \in BOOLEAN : deleteDocument(d, indexDeleted)
  \/ \E j \in JobIds : Dispatch(j)

SpecQueue == Init /\ [][NextQueue]_vars

\* One run per parsedData, no failing step.
NextExtract ==
  \/ \E j \in JobIds : Deliver(j)
  \/ \E j \in JobIds : JobStart(j)
  \/ \E j \in JobIds : EtlExtractAndSave(j)
  \/ \E j \in JobIds : EtlStoreChunks(j, {})
  \/ \E j \in JobIds : EtlIndexChunks(j)
  \/ \E j \in JobIds : EtlComplete(j)

SpecExtract == InitExtract /\ [][NextExtract]_vars

\* One run per parsedData, with inserts of chunks that fail.
NextStore ==
  \/ \E j \in JobIds : Deliver(j)
  \/ \E j \in JobIds : JobStart(j)
  \/ \E j \in JobIds : EtlExtractAndSave(j)
  \/ \E j \in JobIds : \E failing \in SUBSET processedChunks(j) :
        EtlStoreChunks(j, failing)
  \/ \E j \in JobIds : EtlIndexChunks(j)
  \/ \E j \in JobIds : EtlComplete(j)

SpecStore == InitExtract /\ [][NextStore]_vars

\* The attempts of the job of one upload per parsedData: an attempt can
\* throw in extraction or save, in the index step, or in its last step.
NextRetry ==
  \/ \E j \in JobIds : Deliver(j)
  \/ \E j \in JobIds : JobStart(j)
  \/ \E j \in JobIds : EtlExtractAndSave(j)
  \/ \E j \in JobIds : EtlStoreChunks(j, {})
  \/ \E j \in JobIds : EtlIndexChunks(j)
  \/ \E j \in JobIds : EtlComplete(j)
  \/ \E j \in JobIds : EtlThrow(j)
  \/ \E j \in JobIds : EtlCompleteThrows(j)

SpecRetry == InitExtract /\ [][NextRetry]_vars

\* Uploads, runs without a failing step, deletions and the search API.
NextSearch ==
  \/ \E d \in DocIds, queued \in BOOLEAN : uploadDocument(d, queued)
  \/ \E d \in DocIds, indexDeleted \in BOOLEAN : deleteDocument(d, indexDeleted)
  \/ \E j \in JobIds : Deliver(j)
  \/ \E j \in JobIds : JobStart(j)
  \/ \E j \in JobIds : EtlExtractAndSave(j)
  \/ \E j \in JobIds : EtlStoreChunks(j, {})
  \/ \E j \in JobIds : EtlIndexChunks(j)
  \/ \E j \in JobIds : EtlComplete(j)
  \/ \E d \in DocIds, query \in Queries, options \in SearchOptionValues,
        getOk \in BOOLEAN, setOk \in BOOLEAN, t \in 1..MaxTime :
        searchDocument(d, query, options, getOk, setOk, t)
  \/ \E d \in DocIds : clearSearchCache(d)
  \/ \E e \in cache : TtlExpire(e)

SpecSearch == Init /\ [][NextSearch]_vars

\* The runs of several Documents, deletions and searches on each of them
\* (one clock reading).
ScopeQueries == {<<"A", "b", " ">>}
ScopeOptionValues == {DefaultOptions, [DefaultOptions EXCEPT !.page = 2]}

NextScope ==
  \/ \E d \in ScopeDocIds, indexDeleted \in BOOLEAN : deleteDocument(d, indexDeleted)
  \/ \E j \in JobIds : Deliver(j)
  \/ \E j \in JobIds : JobStart(j)
  \/ \E j \in JobIds : EtlExtractAndSave(j)
  \/ \E j \in JobIds : EtlStoreChunks(j, {})
  \/ \E j \in JobIds : EtlIndexChunks(j)
  \/ \E j \in JobIds : EtlComplete(j)
  \/ \E d \in ScopeDocIds, query \in ScopeQueries, options \in ScopeOptionValues,
        getOk \in BOOLEAN, setOk \in BOOLEAN :
        searchDocument(d, query, options, getOk, setOk, MaxTime)
  \/ \E e \in cache : TtlExpire(e)

SpecScope == InitScope /\ [][NextScope]_vars

\* Uploads, reprocess requests, runs without a failing step and searches
\* with the default options (Redis connected).
NextReprocess ==
  \/ \E d \in DocIds : uploadDocument(d, TRUE)
  \/ \E d \in DocIds : reprocessDocument(d, TRUE)
  \/ \E j \in JobIds : Deliver(j)
  \/ \E j \in JobIds : JobStart(j)
  \/ \E j \in JobIds : EtlExtractAndSave(j)
  \/ \E j \in JobIds : EtlStoreChunks(j, {})
  \/ \E j \in JobIds : EtlIndexChunks(j)
  \/ \E j \in JobIds : EtlComplete(j)
  \/ \E d \in DocIds, query \in ScopeQueries, t \in 1..MaxTime :
        searchDocument(d, query, DefaultOptions, TRUE, TRUE, t)
  \/ \E e \in cache : TtlExpire(e)

SpecReprocess == Init /\ [][NextReprocess]_vars

\* One call of processMultipleImages on each batch of up to MaxImages
\* images, each with its failure point.
InitOcr ==
  \E imageBuffers \in SeqsUpTo(FailurePoints, MaxImages) :
    /\ docs = [d \in DocIds |-> NoDoc]
    /\ created = {}
    /\ chunks = {}
    /\ index = [d \in DocIds |-> NoIndex]
    /\ jobs = <<>>
    /\ cache = {}
    /\ response = NoResponse
    /\ ocr = OcrCall(imageBuffers)

NextOcr ==
  \/ OcrStartBatch
  \/ \E k \in DOMAIN ocr.st : OcrCreateWorker(k)
  \/ \E k \in DOMAIN ocr.st : OcrLoadLanguage(k)
  \/ \E k \in DOMAIN ocr.st : OcrRecognize(k)
  \/ \E k \in DOMAIN ocr.st : OcrTerminateWorker(k)
  \/ OcrBatchDone
  \/ OcrReturn

SpecOcr == InitOcr /\ [][NextOcr]_vars

TypeOK ==
  /\ \A d \in DocIds : docs[d].status \in DOCUMENT_STATUS \cup {"absent"}
  /\ Len(jobs) <= MaxJobs

\* ---------------------------------------------------------------------
\* Properties
\* ---------------------------------------------------------------------
StatusChangeAllowed(d) ==
  LET s == docs[d].status
      t == docs'[d].status
  IN \/ s = t
     \/ s = "absent" \/ t = "absent"
     \/ <<s, t>> \in {<<PENDING, PROCESSING>>, <<PROCESSING, COMPLETED>>,
                      <<PROCESSING, FAILED>>}
     \/ /\ s \in {COMPLETED, FAILED}
        /\ t = PENDING
        /\ \E queued \in BOOLEAN : reprocessDocument(d, queued)

\* C1: every change of the stored status of a Document is pending to
\* processing, processing to completed, processing to failed, or completed
\* or failed to pending by a reprocess request.
C1_StatusTransitions == [][\A d \in DocIds : StatusChangeAllowed(d)]_vars

\* The attempt of job j threw and the queue keeps the job for a retry.
RetriedAttempt(j) == jobs[j].state = "active" /\ jobs'[j].state = "waiting"

\* C2: an attempt that throws and is not the last allowed attempt does not
\* set the status of its Document to failed.
C2_FailedOnlyWhenExhausted ==
  [][\A j \in JobIds :
       (RetriedAttempt(j) /\ docs[jobs[j].doc].status # FAILED)
         => docs'[jobs[j].doc].status # FAILED]_vars

\* C3: the stored totalChunks of a Document equals the number of Chunk rows
\* it owns, in every state of the Metadata Store.
C3_TotalChunksIsRowCount ==
  \A d \in DocIds :
    docs[d] # NoDoc => docs[d].totalChunks = Cardinality(ChunksOf(chunks, d))

\* The run of job j sets its Document to completed in this step.
RunCompletes(j) ==
  /\ jobs[j].state = "active" /\ jobs[j].pc = "complete"
  /\ jobs'[j].state = "completed"
  /\ docs'[jobs[j].doc].status = COMPLETED

\* C4: when the run that reprocesses a completed Document completes, the
\* Chunk rows of the Document are exactly the chunks of that run.
C4_RowsAreLatestRun ==
  [][\A j \in JobIds :
       (RunCompletes(j) /\ jobs[j].ofCompleted)
         => ChunksOf(chunks', jobs[j].doc) = processedChunks(j)]_vars

\* C5: when the run that reprocesses a completed Document completes, the
\* index of the Document holds exactly the chunks of that run: no entry of
\* a prior run is left in it.
C5_IndexIsLatestRun ==
  [][\A j \in JobIds :
       (RunCompletes(j) /\ jobs[j].ofCompleted /\ index'[jobs[j].doc].live)
         => index'[jobs[j].doc].entries = processedChunks(j)]_vars

\* A job the queue will still deliver, or is running.
Live(j) == jobs[j].state \in {"waiting", "active"}

\* C6: a Document in status processing always has a job that is running
\* or will be retried, so it does not stay in processing forever.
C6_ProcessingHasLiveJob ==
  \A d \in DocIds :
    docs[d].status = PROCESSING => \E j \in JobIds : jobs[j].doc = d /\ Live(j)

\* The last allowed attempt of job j throws in this step.
LastAttemptThrows(j) ==
  /\ jobs[j].state = "active" /\ jobs[j].pc \in ThrowPoints
  /\ jobs'[j].state = "failed"

\* The newest job of Document d used up its attempts and d is failed.
FailedByExhaustion(d) ==
  /\ docs[d].status = FAILED
  /\ \E j \in JobIds :
       /\ jobs[j].doc = d /\ jobs[j].result = "attempts exhausted"
       /\ \A k \in JobIds : k > j => jobs[k].doc # d

\* C7: when the last allowed attempt of a job throws, its Document is
\* failed with the message of the error, and it stays failed until a
\* reprocess request.
C7_FailedUntilReprocess ==
  [][/\ \A j \in JobIds :
          (LastAttemptThrows(j) /\ docs[jobs[j].doc] # NoDoc)
            => /\ docs'[jobs[j].doc].status = FAILED
               /\ docs'[jobs[j].doc].error = ErrorMessage(jobs[j].pc)
     /\ \A d \in DocIds :
          FailedByExhaustion(d)
            => \/ docs'[d].status \in {FAILED, "absent"}
               \/ \E queued \in BOOLEAN : reprocessDocument(d, queued)]_vars

\* Job j is handed to processDocumentJob while its Document is completed,
\* and takes its step.
DeliveredForCompleted(j) ==
  /\ jobs[j].state = "active" /\ jobs[j].pc = "start"
  /\ docs[jobs[j].doc].status = COMPLETED
  /\ jobs'[j] # jobs[j]

C9_DeliveryRunsProcessor ==
  \A j \in JobIds : jobs[j].run = jobs[j].delivered

\* The runs of the Orchestrator in flight for Document d.
InFlight(d) ==
  {j \in JobIds : jobs[j].doc = d /\ jobs[j].state = "active"
                  /\ jobs[j].pc \in {"extract", "store", "index", "complete"}}

\* C10: at most one processing run is in flight per Document id.
C10_OneRunPerDocument == \A d \in DocIds : Cardinality(InFlight(d)) <= 1

\* ---------------------------------------------------------------------
\* Chunk extraction (SpecExtract)
\* ---------------------------------------------------------------------
IndexEntries == UNION {index[d].entries : d \in DocIds}

MinContentLength(type) ==
  IF type = IMAGE THEN MAX_IGNORED_OCR_LENGTH + 1 ELSE MIN_TEXT_LENGTH

\* C11: every Chunk row and every index entry of kind paragraph or table
\* has content of length at least 10, and of kind image of length at
\* least 6; a record below the minimum is dropped and the run goes on.
C11_NoShortChunk ==
  \A c \in chunks \cup IndexEntries : c.len >= MinContentLength(c.type)

\* The parsedData has a record whose text is below the minimum.
HasShortRecord(data) ==
  \/ \E i \in 1..Len(data.paragraphs) :
       data.paragraphs[i].ok /\ data.paragraphs[i].len < MIN_TEXT_LENGTH
  \/ \E i \in 1..Len(data.tables) :
       data.tables[i].ok /\ data.tables[i].len < MIN_TEXT_LENGTH
  \/ \E i \in 1..Len(data.images) :
       /\ data.images[i].hasData /\ data.images[i].ocr = "ok"
       /\ data.images[i].len <= MAX_IGNORED_OCR_LENGTH

C11_Witness ==
  \E j \in JobIds :
    /\ jobs[j].result = "completed"
    /\ HasShortRecord(parsedData(jobs[j].data))
    /\ ChunksOf(chunks, jobs[j].doc) # {}
    /\ index[jobs[j].doc].entries # {}

\* An image record with bytes whose OCR succeeds with a cleaned text
\* longer than 5 characters.
GoodImage(r) ==
  r.hasData /\ r.ocr = "ok" /\ r.len > MAX_IGNORED_OCR_LENGTH

\* The chunks of C that are the image chunk of record r: kind image,
\* content the OCR text, ocrConfidence the OCR confidence.
ImageChunksOf(C, r) ==
  {c \in C : c.type = IMAGE /\ c.len = r.len /\ c.conf = r.conf
             /\ c.page = PageOf(r)}

Occurrences(seq, r) == Cardinality({i \in 1..Len(seq) : seq[i] = r})

\* C12: when a run completed, every image record with bytes and an OCR
\* text longer than 5 characters has exactly one image chunk, with the OCR
\* text and the OCR confidence, in the Chunk rows and in the index.
C12_ImageChunkPerOcrText ==
  \A j \in JobIds :
    jobs[j].result = "completed"
      => \A r \in ImageRecords :
           GoodImage(r)
             => LET n == Occurrences(parsedData(jobs[j].data).images, r)
                    d == jobs[j].doc
                IN /\ Cardinality(ImageChunksOf(ChunksOf(chunks, d), r)) = n
                   /\ Cardinality(ImageChunksOf(index[d].entries, r)) = n

\* The records of the parsedData that are valid, per kind.
ValidRecords(data, type) ==
  IF type = PARAGRAPH
  THEN {i \in 1..Len(data.paragraphs) :
          data.paragraphs[i].ok /\ data.paragraphs[i].len >= MIN_TEXT_LENGTH}
  ELSE IF type = TABLE
  THEN {i \in 1..Len(data.tables) :
          data.tables[i].ok /\ data.tables[i].len >= MIN_TEXT_LENGTH}
  ELSE {i \in 1..Len(data.images) : GoodImage(data.images[i])}

\* The parsedData has a record whose processing throws.
HasFailingRecord(data) ==
  \/ \E i \in 1..Len(data.paragraphs) : ~data.paragraphs[i].ok
  \/ \E i \in 1..Len(data.tables) : ~data.tables[i].ok
  \/ \E i \in 1..Len(data.images) :
       data.images[i].hasData /\ data.images[i].ocr = "error"

\* C13: when one record of the parsedData throws, the extraction still
\* returns (the run stores its chunks), with one chunk for every valid
\* record of each of the three kinds and none for the failing record.
C13_FailureIsContained ==
  \A j \in JobIds :
    (jobs[j].pc = "index" /\ HasFailingRecord(parsedData(jobs[j].data)))
      => \A type \in {PARAGRAPH, IMAGE, TABLE} :
           Cardinality({c \in ChunksOf(chunks, jobs[j].doc) : c.type = type})
             = Cardinality(ValidRecords(parsedData(jobs[j].data), type))

\* ---------------------------------------------------------------------
\* Search and cache (SpecSearch)
\* ---------------------------------------------------------------------
\* This step answers a search request.
SearchStep ==
  response' # response /\ response'.op = "search" /\ ~response'.expired

\* The request of this step touched neither the cache nor the index.
CacheAndIndexUntouched ==
  ~response'.cacheRead /\ ~response'.indexQueried /\ cache' = cache

C15_QueryTooShort ==
  [][(SearchStep /\ Len(trim(response'.query)) < MIN_QUERY_LENGTH)
       => /\ response'.code = "BAD_REQUEST"
          /\ ~response'.storeRead
          /\ CacheAndIndexUntouched]_vars

C15_Witness ==
  /\ response.op = "search" /\ response.code = "BAD_REQUEST"
  /\ Len(response.query) >= MIN_QUERY_LENGTH
  /\ docs[response.doc].status = COMPLETED

\* The cache key of the request of a response.
KeyOf(r) == generateCacheKey(r.doc, cleanSearchQuery(r.query), r.options)

\* C16: a response served from the cache was computed for the same
\* Document, the same normalized query and the same value of every option
\* of the index query (limit, offset, type, page, minimum confidence,
\* sortBy, sortOrder) as the request it answers.
C16_HitHasSameOptions ==
  [][(SearchStep /\ response'.fromCache)
       => \A e \in cache :
            e.key = KeyOf(response')
              => e.madeFor = buildSearchOptions(response'.options)]_vars

\* This step answers a cache-clear request for an existing Document.
ClearStep ==
  response' # response /\ response'.op = "clear" /\ response'.code = "OK"

\* C17: after a cache-clear call for a Document the cache holds no entry
\* whose key was derived from the id of that Document.
C17_ClearRemovesEntries ==
  [][ClearStep => \A e \in cache' : e.key.doc # response'.doc]_vars

\* This step answers the same search as the last response, on a completed
\* Document, both with a working cache and with no TTL of an entry of the
\* key elapsed in between.
RepeatedSearch ==
  /\ SearchStep
  /\ response.op = "search" /\ response.code = "OK" /\ ~response.expired
  /\ response.getOk /\ response.setOk
  /\ response'.doc = response.doc /\ response'.query = response.query
  /\ response'.options = response.options
  /\ docs[response'.doc].status = COMPLETED
  /\ response'.getOk /\ response'.setOk

SecondCallFromCache ==
  response'.payload = response.payload /\ ~response'.indexQueried

\* C18 as stated: the second of two identical searches within the TTL
\* window returns the payload of the first and does not query the index.
C18_SecondCallIdentical ==
  [][RepeatedSearch => SecondCallFromCache]_vars

\* C18 amended: ... when the first call returned a non-empty result set.
C18_SecondCallIdenticalNonEmpty ==
  [][(RepeatedSearch /\ response.payload.hits # {})
       => SecondCallFromCache]_vars

C18_Witness ==
  /\ response.op = "search" /\ response.code = "OK" /\ response.fromCache
  /\ response.payload.hits # {}

\* This step answers a search with zero hits from the index.
ZeroHitStep ==
  /\ SearchStep /\ response'.code = "OK" /\ response'.indexQueried
  /\ response'.payload.hits = {}

\* C19: the cache never holds a response with an empty result set: a
\* search that returns zero hits writes nothing, and after it the cache has
\* no entry for its key (the lookup of that search was a miss).
C19_EmptyNeverCached ==
  [][/\ \A e \in cache' : e.value.hits # {}
     /\ ZeroHitStep
          => /\ cache' = cache
             /\ response'.getOk => \A e \in cache' : e.key # KeyOf(response')]_vars

C19_Witness ==
  /\ response.op = "search" /\ response.code = "OK" /\ response.indexQueried
  /\ response.payload.hits = {} /\ response.getOk
  /\ cache # {}

\* C20: when the Redis get or set of a search fails, the get is a miss and
\* the set changes nothing, and a search on a completed Document is still
\* answered with the results of the index.
C20_CacheFailureIsAbsorbed ==
  [][(/\ SearchStep
      /\ Len(trim(response'.query)) >= MIN_QUERY_LENGTH
      /\ docs[response'.doc].status = COMPLETED
      /\ ~response'.getOk \/ ~response'.setOk)
       => LET d == response'.doc
              so == buildSearchOptions(response'.options)
              M == Matching(index, d, cleanSearchQuery(response'.query), so)
          IN /\ ~response'.getOk => ~response'.fromCache
             /\ ~response'.setOk => cache' = cache
             /\ indexAccepts(index, d, so)
                  => /\ response'.code = "OK"
                     /\ response'.indexQueried
                     /\ response'.payload.hits \in Windows(M, so)]_vars

C20_Witness ==
  /\ response.op = "search" /\ response.code = "OK"
  /\ ~response.getOk /\ ~response.setOk
  /\ response.payload.hits # {}

\* ---------------------------------------------------------------------
\* C21: a search on Document D is scoped to D.  Distinct Document ids
\* give distinct index names and distinct cache keys; every hit of a
\* response for D, and every hit of a cache entry of D, is an entry that
\* was indexed for D; and a search that queries the index returns what it
\* would return with the index of every other Document erased.
\* ---------------------------------------------------------------------
IndexOfOnly(I, d) == [e \in DOMAIN I |-> IF e = d THEN I[e] ELSE NoIndex]

NamesAndKeysDistinct ==
  \A d \in ScopeDocIds, e \in ScopeDocIds :
    d # e =>
      /\ getIndexName(d) # getIndexName(e)
      /\ \A q1 \in ScopeQueries, q2 \in ScopeQueries,
            o1 \in ScopeOptionValues, o2 \in ScopeOptionValues :
            generateCacheKey(d, cleanSearchQuery(q1), o1)
              # generateCacheKey(e, cleanSearchQuery(q2), o2)

C21_SearchIsScoped ==
  [][/\ NamesAndKeysDistinct
     /\ \A e \in cache : \A h \in e.value.hits : h.doc = e.key.doc
     /\ SearchStep =>
          LET d == response'.doc
              so == buildSearchOptions(response'.options)
              M == Matching(IndexOfOnly(index, d), d,
                            cleanSearchQuery(response'.query), so)
          IN /\ \A h \in response'.payload.hits : h.doc = d
             /\ response'.indexQueried /\ response'.code = "OK" =>
                  /\ response'.payload.hits \subseteq M
                  /\ response'.payload.total = Cardinality(M)]_vars

\* A search on a completed Document returned hits while the index of
\* another Document holds an entry matching the same query, and a search
\* on it was answered from the cache.
C21_Witness ==
  /\ response.op = "search" /\ response.code = "OK"
  /\ response.payload.hits # {}
  /\ \E e \in ScopeDocIds :
       /\ e # response.doc
       /\ Matching(index, e, cleanSearchQuery(response.query),
                   buildSearchOptions(response.options)) # {}
  /\ response.fromCache

\* ---------------------------------------------------------------------
\* C22: when a run completes, the stored totalPages of its Document is the
\* greatest pageNumber of the Document's Chunk rows, and 0 when it has no
\* Chunk row.
\* ---------------------------------------------------------------------
MaxPageNumber(rows) ==
  IF rows = {} THEN 0
  ELSE CHOOSE p \in {c.page : c \in rows} : \A c \in rows : c.page <= p

TotalPagesIsMaxPage(d) ==
  docs'[d].totalPages = MaxPageNumber(ChunksOf(chunks', d))

C22_TotalPagesIsMaxPage ==
  [][\A j \in JobIds : RunCompletes(j) => TotalPagesIsMaxPage(jobs[j].doc)]_vars

\* ---------------------------------------------------------------------
\* OCR service (SpecOcr)
\* ---------------------------------------------------------------------
\* C23: processMultipleImages never throws, and what it returns for n
\* images is n outcomes in input order, the outcome of image k being a
\* success exactly when processImage of image k did not throw, with
\* successful + failed = totalProcessed = n.
C23_OutcomePerImage ==
  /\ ocr.pc # "thrown"
  /\ ocr.pc = "returned" =>
       /\ Len(ocr.results) = Len(ocr.images)
       /\ \A k \in 1..Len(ocr.results) :
            /\ ocr.results[k].index = k - 1
            /\ ocr.results[k].success = ~ocr.threw[k]
       /\ ocr.successful + ocr.failed = ocr.totalProcessed
       /\ ocr.totalProcessed = Len(ocr.images)

\* A call on several images returned with failed and successful images.
C23_Witness ==
  /\ ocr.pc = "returned"
  /\ Len(ocr.images) >= 2
  /\ ocr.failed >= 1 /\ ocr.successful >= 1

\* C24: once processImage of an image has returned or thrown, the worker
\* created for the image is neither alive nor in the worker map.
C24_WorkerReleased ==
  \A k \in DOMAIN ocr.st :
    ocr.st[k] = "done" => k \notin ocr.alive /\ k \notin ocr.registered

\* C25: at most maxWorkers images are in processImage at a time, and no
\* image waits while an image of the call is in processImage and fewer
\* than maxWorkers are.
InProcessImage ==
  {k \in DOMAIN ocr.st : ocr.st[k] \in {"create", "load", "recognize", "finally"}}

C25_BoundedAndNoIdleWorker ==
  /\ Cardinality(InProcessImage) <= maxWorkers
  /\ (InProcessImage # {} /\ \E k \in DOMAIN ocr.st : ocr.st[k] = "queued")
       => Cardinality(InProcessImage) = maxWorkers

\* ---------------------------------------------------------------------
\* C26: index-already-exists on index creation and index-not-found on
\* index deletion are swallowed.  The index step of a run on a Document
\* that has an index does not record either error on the Document, and
\* unless the step throws for another reason the run goes on to its last
\* step with the batch indexed; a delete request on a Document without
\* an index removes the Document and its Chunk rows.
\* ---------------------------------------------------------------------
ExpectedIndexErrors == {"index_already_exists", "index_not_found"}

IndexStepOnExistingIndex(j) ==
  /\ j \in JobIds
  /\ jobs[j].state = "active" /\ jobs[j].pc = "index"
  /\ index[jobs[j].doc].live
  /\ jobs'[j] # jobs[j]

DeleteWithoutIndex(d) ==
  docs[d] # NoDoc /\ docs'[d] = NoDoc /\ ~index[d].live

C26_ExpectedIndexErrorsSwallowed ==
  [][/\ \A d \in DocIds :
          docs'[d] # NoDoc => docs'[d].error \notin ExpectedIndexErrors
     /\ \A j \in DOMAIN jobs :
          (IndexStepOnExistingIndex(j) /\ index' # index)
            => /\ jobs'[j].pc = "complete"
               /\ processedChunks(j) \subseteq index'[jobs[j].doc].entries
     /\ \A d \in DocIds :
          DeleteWithoutIndex(d)
            => ~index'[d].live /\ ChunksOf(chunks', d) = {}]_vars

\* The run that reprocesses a completed Document has passed its index
\* step: the index holds the entries of an earlier run and its own.
C26_Witness ==
  \E j \in JobIds :
    /\ jobs[j].ofCompleted
    /\ jobs[j].state = "active" /\ jobs[j].pc = "complete"
    /\ processedChunks(j) \subseteq index[jobs[j].doc].entries
    /\ index[jobs[j].doc].entries # processedChunks(j)

\* ---------------------------------------------------------------------
\* C27: the stored error of a Document is non-null only while its status
\* is failed: a Document that is pending, processing or completed has no
\* error.
\* ---------------------------------------------------------------------
C27_ErrorOnlyWhenFailed ==
  \A d \in DocIds :
    (docs[d] # NoDoc /\ docs[d].error # NoError) => docs[d].status = FAILED

\* An attempt of a job failed and left its Document failed with the
\* message; the retried attempt has set the Document to processing.
C27_Witness ==
  \E j \in JobIds :
    /\ jobs[j].attemptsMade >= 1
    /\ jobs[j].state = "active" /\ jobs[j].pc = "extract"
    /\ docs[jobs[j].doc] # NoDoc
    /\ docs[jobs[j].doc].status = PROCESSING

\* ---------------------------------------------------------------------
\* C28: a run sets its Document to completed only after its index step:
\* when it does, the index of the Document exists and holds the chunks of
\* the run; and whenever a Document is completed its index exists.
\* ---------------------------------------------------------------------
C28_CompletedAfterIndexing ==
  [][/\ \A j \in JobIds :
          RunCompletes(j)
            => /\ index'[jobs[j].doc].live
               /\ processedChunks(j) \subseteq index'[jobs[j].doc].entries
     /\ \A d \in DocIds :
          (docs'[d] # NoDoc /\ docs'[d].status = COMPLETED) => index'[d].live]_vars

\* ---------------------------------------------------------------------
\* C29: a reprocess request that is accepted (one job is enqueued for an
\* existing Document) finds the Document not processing, sets its status
\* to pending and clears its error, appends exactly one waiting job, and
\* leaves its totalChunks, totalPages, Chunk rows and index as they
\* were; no step takes a Document from processing to pending.
\* ---------------------------------------------------------------------
ReprocessAccepted(d) ==
  /\ docs[d] # NoDoc
  /\ Len(jobs') = Len(jobs) + 1
  /\ jobs'[Len(jobs')].doc = d

C29_ReprocessFrame ==
  [][\A d \in DocIds :
       /\ ReprocessAccepted(d) =>
            /\ docs[d].status # PROCESSING
            /\ docs'[d] = [docs[d] EXCEPT !.status = PENDING, !.error = NoError]
            /\ SubSeq(jobs', 1, Len(jobs)) = jobs
            /\ jobs'[Len(jobs')].state = "waiting"
            /\ chunks' = chunks
            /\ index' = index
       /\ (docs[d] # NoDoc /\ docs[d].status = PROCESSING /\ docs'[d] # NoDoc)
            => docs'[d].status # PENDING]_vars

\* A completed Document with Chunk rows and an index was reprocessed:
\* it is pending, its job waits and its rows and index are there.
C29_Witness ==
  \E j \in JobIds :
    /\ jobs[j].ofCompleted /\ jobs[j].state = "waiting" /\ jobs[j].delivered = 0
    /\ docs[jobs[j].doc] # NoDoc
    /\ docs[jobs[j].doc].status = PENDING
    /\ docs[jobs[j].doc].totalChunks > 0
    /\ ChunksOf(chunks, jobs[j].doc) # {}
    /\ index[jobs[j].doc].entries # {}

\* ---------------------------------------------------------------------
\* C30: a response served from the cache carries the hits of the cached
\* response and has cached = TRUE in its search metadata, and a response
\* computed from the index has cached = FALSE.
\* ---------------------------------------------------------------------
C30_CachedFlagTellsHit ==
  [][(SearchStep /\ response'.code = "OK") =>
       /\ response'.fromCache =>
            \E e \in cache :
              /\ e.key = KeyOf(response')
              /\ response'.payload.hits = e.value.hits
       /\ response'.payload.cached = response'.fromCache]_vars

\* ---------------------------------------------------------------------
\* C31: every cache entry has a lifetime of 300 seconds, and the search
\* that follows the end of the lifetime of the entry of its key is a miss
\* that queries the index.
\* ---------------------------------------------------------------------
SearchAfterExpiry ==
  /\ SearchStep
  /\ response.op = "search" /\ response.code = "OK" /\ response.expired
  /\ response'.doc = response.doc /\ response'.query = response.query
  /\ response'.options = response.options
  /\ response'.code = "OK"

C31_EntriesExpire ==
  [][/\ \A e \in cache' : e.ttl = 300
     /\ SearchAfterExpiry => response'.indexQueried /\ ~response'.fromCache]_vars

\* The entry of the last response, which had hits, has expired while its
\* Document is completed.
C31_Witness ==
  /\ response.op = "search" /\ response.code = "OK" /\ response.expired
  /\ response.payload.hits # {}
  /\ docs[response.doc] # NoDoc /\ docs[response.doc].status = COMPLETED

\* ---------------------------------------------------------------------
\* C32: once the run of a reprocess request has completed, no search is
\* answered with a response that was cached before that request.
\* ---------------------------------------------------------------------
\* A job of Document d that was enqueued after entry e was written (a
\* reprocess request) has completed its run.
ReprocessedSince(e, d) ==
  \E j \in JobIds :
    /\ j > e.jobsSeen
    /\ jobs[j].doc = d
    /\ jobs[j].state = "completed" /\ jobs[j].result = "completed"

C32_NoStaleHitAfterReprocess ==
  [][(SearchStep /\ response'.fromCache) =>
       \A e \in cache :
         e.key = KeyOf(response') => ~ReprocessedSince(e, response'.doc)]_vars

\* ---------------------------------------------------------------------
\* C33: a Document is never pending without a job: while its status is
\* pending the queue holds a job for it that waits or is running.
\* ---------------------------------------------------------------------
C33_PendingHasJob ==
  \A d \in DocIds :
    (docs[d] # NoDoc /\ docs[d].status = PENDING)
      => \E j \in JobIds : jobs[j].doc = d /\ Live(j)

\* ---------------------------------------------------------------------
\* C34: when a run completes, every chunk the run submitted to the index
\* of its Document is a Chunk row of the Document, and the totalChunks
\* the run reports is the number of Chunk rows the run stored.
\* ---------------------------------------------------------------------
RowsStoredBy(j) == processedChunks(j) \cap ChunksOf(chunks', jobs[j].doc)

C34_IndexedChunksAreRows ==
  [][\A j \in JobIds :
       RunCompletes(j) =>
         /\ processedChunks(j) \cap index'[jobs[j].doc].entries
              \subseteq ChunksOf(chunks', jobs[j].doc)
         /\ reportedTotalChunks(j) = Cardinality(RowsStoredBy(j))]_vars

\* ---------------------------------------------------------------------
\* C35: when an attempt of a job completes after an earlier attempt of
\* the job failed, the Chunk rows and the index entries of the Document
\* are exactly the chunks of the completing attempt.
\* ---------------------------------------------------------------------
C35_NoChunksOfFailedAttempts ==
  [][\A j \in JobIds :
       (RunCompletes(j) /\ jobs[j].attemptsMade >= 1) =>
         /\ ChunksOf(chunks', jobs[j].doc) = processedChunks(j)
         /\ index'[jobs[j].doc].entries = processedChunks(j)]_vars

\* ---------------------------------------------------------------------
\* C36: a Document without a record has no index and no Chunk row.
\* ---------------------------------------------------------------------
C36_NoIndexWithoutRecord ==
  \A d \in DocIds :
    docs[d] = NoDoc => ~index[d].live /\ ChunksOf(chunks, d) = {}

\* ---------------------------------------------------------------------
\* C37: the attributes a search request makes the index query filter on,
\* and the sort field it passes when the validator allows it, are
\* configured on the index as filterable and sortable.
\* ---------------------------------------------------------------------
C37_QueryAttributesConfigured ==
  (response.op = "search" /\ response.indexQueried) =>
    LET so == buildSearchOptions(response.options)
    IN /\ FilterAttributes(so) \subseteq filterableAttributes
       /\ so.sortBy \in sortByValues => so.sortBy \in sortableAttributes

====
